---------------------------- MODULE Spec2Model ----------------------------
(***************************************************************************)
(* Verification model of TvipsTools.                                       *)
(*                                                                         *)
(*   - the scripted experiment sequencer, TvipsTools/experiment.py run()   *)
(*     and acquire_image(), as a single thread of control (SpecExp), and   *)
(*     its argument parser parse_timedelays on its own (SpecParse);        *)
(*   - the interactive live view, TvipsTools/ui/liveview.py LiveViewUi     *)
(*     with the grabbers of TvipsTools/lib/uiutils.py, as a UI thread and  *)
(*     a grabber worker thread (SpecLive; SpecLiveFair with the worker     *)
(*     scheduled; SpecFrames over the images the detector may hold).       *)
(*                                                                         *)
(* Delays are integers in fifths of 0.001 ps (5 is 0.001 ps).  The model   *)
(* of run() starts at its first statement: experiment.py is taken as       *)
(* loaded (its line 6, `from sys.stdout import flush`, names no importable *)
(* module) and run as a script, so that the global `args` of line 127 is   *)
(* cmd_args.                                                               *)
(***************************************************************************)
EXTENDS Integers, Sequences, FiniteSets, TLC

VARIABLES
    \* ---- experiment.py: run() ----
    pc,          \* position of run()
    i,           \* the local i of run(): readiness counter, then scan index
    scanIt,      \* iterator of range(cmd_args.n_scans): scans started so far
    nScans,      \* cmd_args.n_scans
    delaysArg,   \* cmd_args.delays, as the elements between its commas
    delays,      \* the list `delays` (shuffled in place)
    dIdx,        \* iterator position of `for delay in delays` (1-based)
    step,        \* acquisition step whose retry loop is executing
    camState,    \* remote detector state, as f216.state() returns it
    pump,        \* last command sent to the pump shutter
    probe,       \* last command sent to the probe shutter
    shutterMode, \* operating mode commanded to both shutters
    stageCmd,    \* last absolute_time(delay, T0_POS) arguments
    stageMoving, \* the delay stage is in motion
    log,         \* records written to experiment.log
    logState,    \* "unopened", "open", "closed"
    fs,          \* directories existing under savedir
    made,        \* directories created by this run, in creation order
    raised,      \* exception that left run(), or "none"
    nAcq,        \* successful acquire_image() calls, per step
    faults,      \* device faults raised inside acquire_image() so far
    nClose,      \* number of logfile.close() calls
    flushed,     \* records of log that have left the buffer of logfile
    moves,       \* delay stage moves commanded so far, with their scan
    \* ---- ui/liveview.py: LiveViewUi, lib/uiutils.py: the grabbers ----
    uiPc,         \* what the UI thread is executing ("idle": its event loop)
    timerActive,  \* image_timer is running
    checked,      \* checked action of the Start/Stop group
    takeEnabled,  \* actionTakeImage is enabled
    grabConnected,\* tvips_image_grabber.connected
    acqConnected, \* tvips_image_acquirer.connected
    offlineQuery, \* f216.state() called while the acquirer is flagged disconnected
    thState,      \* tvips_image_grabber.image_grabber_thread (a QThread)
    grabPc,       \* position of __get_image on the grabber thread
    interruptReq, \* interruption requested on the grabber thread
    shotPc,       \* position of TvipsAcquisitionImageGrabber.acquire_image
    liveCmd,      \* last StartLive/StopLive command sent to the detector
    lastOp,       \* UI operation that returned last
    nTicks,       \* timeouts of image_timer so far
    nCycles,      \* invocations of __get_image so far
    grabResults,  \* image_ready emissions of the latest __get_image
    shotResults,  \* image_ready emissions of the latest acquire_image()
    camFrame,     \* the image the detector holds (LiveImage, currentImage)
    liveFrame,    \* what the grabber's image_ready carried last
    shotFrame,     \* what the acquirer's image_ready carried last
    \* ---- DectrisTools ui/liveview.py: the exposure progress bar ----
    progressBarExposure, \* QProgressBar: [minimum, maximum, value]
    dectrisConnected,    \* dectris_image_grabber.connected
    frame_time,          \* dectris_image_grabber.Q.frame_time, in units of 5 ms
    progress_thread,     \* exposure_progress_worker.progress_thread
    progInterrupt,       \* its interruption flag
    uiEvents,            \* queued signals waiting in the UI thread's event loop
    uiProg,              \* where the UI thread is: event loop or update_image
    exposing,            \* the image grabber has triggered and not yet delivered
    afterReset           \* no trigger was handled since the last reset

\* state of run() (the detector state camState is shared with the live view)
expVars == <<pc, i, scanIt, nScans, delays, dIdx, step, pump, probe,
             shutterMode, stageCmd, stageMoving, log, logState, fs, made,
             raised, nAcq, faults, nClose, flushed, delaysArg, moves>>

liveVars == <<uiPc, timerActive, checked, takeEnabled, grabConnected,
              acqConnected, offlineQuery, thState, grabPc, interruptReq, shotPc, liveCmd,
              lastOp, nTicks, nCycles, grabResults, shotResults, camFrame,
              liveFrame, shotFrame>>


progVars == <<progressBarExposure, dectrisConnected, frame_time,
              progress_thread, progInterrupt, uiEvents, uiProg, exposing,
              afterReset>>

vars == <<expVars, camState, liveVars, progVars>>

-----------------------------------------------------------------------------
(* Bounds of the model *)
MaxScans == 2
MaxDelays == 2
MaxDelayValue == 1
MaxElems == 2
MaxFine == 6
MaxTicks == 3
MaxDim == 3

(* Program constants: the readiness budget 4 * 10 of run(), and T0_POS =    *)
(* 27.1083 in units of 1e-4                                                *)
ReadyBudget == 40
T0_POS == 271083

None == "None"

DevStates == {"ON", "RUNNING", "OPEN", "FAULT", "UNKNOWN"}

Steps == {"dark", "laser", "off", "on"}

DIR_PUMP_OFF == "pump_off"
DIR_LASER_BG == "laser_background"
DIR_DARK == "dark_image"

\* scandir = f"scan_{i+1:04d}", as the pair of its prefix and number
ScanDirName(n) == <<"scan", n>>

FixedDir(name) == <<name, 0>>

\* sorted(timedelays): the DelaySet run() starts from is ascending
IsSorted(s) == \A k \in 1..(Len(s) - 1) : s[k] <= s[k + 1]

(***************************************************************************)
(* parse_timedelays (experiment.py:58-84).  Its argument is modelled after *)
(* time_str.split(","), as the sequence of its elements (never empty: the  *)
(* empty text splits into one empty element).  An element is the text of a  *)
(* number, the text start:step:stop of three numbers, the empty text, or   *)
(* any other text.  Numbers are integers in fifths of 0.001, so that        *)
(* rounding to three decimals has something to round and never meets a tie: *)
(* 5 is 0.001, and a value is rounded when it is a multiple of 5.           *)
(***************************************************************************)
Lit(v) == [t |-> "num", start |-> v, inc |-> 0, stop |-> 0]
Rng(a, d, b) == [t |-> "range", start |-> a, inc |-> d, stop |-> b]
Empty == [t |-> "empty", start |-> 0, inc |-> 0, stop |-> 0]
Junk == [t |-> "junk", start |-> 0, inc |-> 0, stop |-> 0]

\* arange that takes stop itself when the steps land on it
M_arange(start, stop, inc) ==
    LET n == IF inc > 0
             THEN IF stop >= start THEN (stop - start) \div inc + 1 ELSE 0
             ELSE IF start >= stop THEN (start - stop) \div (-inc) + 1 ELSE 0
    IN  [k \in 1..n |-> start + (k - 1) * inc]

\* np.arange(start, stop, step) for step # 0: ceil((stop - start) / step)
\* values start, start + step, ...; none if that length is not positive
arange(start, stop, inc) ==
    LET n == IF inc > 0
             THEN IF stop > start THEN (stop - start + inc - 1) \div inc ELSE 0
             ELSE IF start > stop THEN (start - stop - inc - 1) \div (-inc) ELSE 0
    IN  [k \in 1..n |-> start + (k - 1) * inc]

\* round(n, 3), np.round(x, 3): the nearest multiple of 0.001
round(n) == 5 * ((2 * n + 5) \div 10)

\* sorted(timedelays)
sorted(s) == SortSeq(s, LAMBDA x, y : x < y)

\* lines 69-79: the loop over the elements; float(elem), else the range, else
\* (a text that is neither, or np.arange raising on a zero step) return []
RECURSIVE parse_loop(_, _)
parse_loop(timedelays, elements) ==
    IF elements = <<>>
    THEN [failed |-> FALSE, timedelays |-> timedelays]
    ELSE LET elem == Head(elements) IN
         IF elem.t = "num"
         THEN parse_loop(Append(timedelays, elem.start), Tail(elements))
         ELSE IF elem.t = "range" /\ elem.inc # 0
         THEN LET fl == arange(elem.start, elem.stop, elem.inc) IN
              parse_loop(timedelays \o [k \in DOMAIN fl |-> round(fl[k])],
                         Tail(elements))
         ELSE [failed |-> TRUE, timedelays |-> <<>>]

parse_timedelays(time_str) ==
    LET r == parse_loop(<<>>, time_str) IN
    IF r.failed
    THEN <<>>
    ELSE sorted([k \in DOMAIN r.timedelays |-> round(r.timedelays[k])])

\* --delays arguments given to run(): up to MaxDelays numbers of whole
\* thousandths up to MaxDelayValue, written in descending order; one range;
\* the empty text; a number followed by a text that is no number
DelayArgs ==
    { s \in UNION { [1..n -> {Lit(5 * v) : v \in 0..MaxDelayValue}] :
                    n \in 1..MaxDelays } :
          \A k \in 1..(Len(s) - 1) : s[k].start >= s[k + 1].start }
    \cup {<<Rng(0, 5, 5 * MaxDelays)>>, <<Empty>>, <<Lit(0), Junk>>}

\* arguments given to parse_timedelays alone: up to MaxElems elements, numbers
\* within MaxFine fifths of 0.001 of zero, ranges of ascending, descending and
\* zero step, the two texts of the docstring-like examples "0:1:5" and
\* "1.5,3.25:0.25:4.0", and texts that are neither
Elements ==
    {Lit(v) : v \in (-MaxFine)..MaxFine}
    \cup {Rng(a, d, b) : a \in {0, 3}, d \in {-3, 0, 2, 5}, b \in {0, MaxFine}}
    \cup {Empty, Junk}

Example1 == <<Rng(0, 5000, 25000)>>
Example2 == <<Lit(7500), Rng(16250, 1250, 20000)>>

TimeStrings ==
    UNION { [1..n -> Elements] : n \in 1..MaxElems } \cup {Example1, Example2}

\* a shuffle that draws every position anew from the list (random.choices)
M_Shuffles(s) ==
    { [k \in 1..Len(s) |-> s[p[k]]] : p \in [1..Len(s) -> 1..Len(s)] }

\* random.shuffle: any arrangement of the same elements
Shuffles(s) ==
    { [k \in 1..Len(s) |-> s[p[k]]] : p \in Permutations(1..Len(s)) }


\* lines 6, 137, 186: flush is the flush of sys.stdout.  It empties the buffer
\* of the standard output; of the records written to logfile as many are in the
\* file afterwards (sink) as before.
flush(sink) == sink

\* fmt_log(message): one record per write; the timestamp is not modelled
fmt_log(kind, msg, a, b) == [kind |-> kind, msg |-> msg, a |-> a, b |-> b]


-----------------------------------------------------------------------------
(***************************************************************************)
(* experiment.py: run() and acquire_image()                                *)
(***************************************************************************)

hwVars == <<pump, probe, shutterMode, stageCmd, stageMoving>>
ctlVars == <<i, scanIt, dIdx, step>>
logVars == <<log, logState, nClose, flushed>>
dirVars == <<fs, made>>
inputVars == <<nScans, delaysArg>>

\* directories that may exist under savedir before the run
PreExisting == SUBSET {<<DIR_PUMP_OFF, 0>>, <<"scan", 2>>}

\* the state of run() before its first statement
ExpSetup ==
    /\ pc = "start"
    /\ i = 0
    /\ scanIt = 0
    /\ delays = <<>>
    /\ dIdx = 0
    /\ step = "none"
    /\ pump = "unset"
    /\ probe = "unset"
    /\ shutterMode = "unset"
    /\ stageCmd = <<>>
    /\ stageMoving = FALSE
    /\ log = <<>>
    /\ logState = "unopened"
    /\ made = <<>>
    /\ raised = "none"
    /\ nAcq = [k \in Steps |-> 0]
    /\ faults = 0
    /\ nClose = 0
    /\ flushed = 0
    /\ moves = <<>>

\* run(cmd_args) is entered: any arguments, detector state and savedir
ExpInit ==
    /\ ExpSetup
    /\ nScans \in 0..MaxScans
    /\ delaysArg \in DelayArgs
    /\ camState \in DevStates
    /\ fs \in PreExisting

\* parse_timedelays is about to be applied to any of TimeStrings
ParseInit ==
    /\ ExpSetup
    /\ nScans = 1
    /\ delaysArg \in TimeStrings
    /\ camState = "ON"
    /\ fs = {}

-----------------------------------------------------------------------------
(***************************************************************************)
(* Frames (lib/uiutils.py).  A frame is a matrix, a sequence of rows.  The  *)
(* orientation correction only moves pixels, so it is exercised on the     *)
(* frames of every shape up to MaxDim x MaxDim whose pixels are all        *)
(* different: the pixel at row r, column c of an M x N frame is (r-1)*N+c. *)
(***************************************************************************)

Rows(m) == Len(m)
Cols(m) == Len(m[1])

\* numpy.rot90(m): a quarter turn counterclockwise, the last column of m
\* becomes the first row
rot90(m) ==
    [r \in 1..Cols(m) |-> [c \in 1..Rows(m) |-> m[c][Cols(m) + 1 - r]]]

\* numpy.fliplr(m): every row reversed
fliplr(m) ==
    [r \in 1..Rows(m) |-> [c \in 1..Cols(m) |-> m[r][Cols(m) + 1 - c]]]

\* the correction without its mirror step
M_fix_image_orientation(image) == rot90(image)

fix_image_orientation(image) == fliplr(rot90(image))

Frame(M, N) == [r \in 1..M |-> [c \in 1..N |-> (r - 1) * N + c]]

Frames == {Frame(M, N) : M \in 1..MaxDim, N \in 1..MaxDim}

\* what image_ready carries: where the image came from, how many times the
\* orientation correction was applied to it, and the image
NoFrame == [src |-> "none", fixes |-> 0, img |-> <<>>]

\* image_ready.emit(fix_image_orientation(<image read from the detector>))
DeviceFrame(image) ==
    [src |-> "device", fixes |-> 1, img |-> fix_image_orientation(image)]

\* image_ready.emit(img) of the simulated branches: random data, uncorrected
SyntheticFrame == [src |-> "synthetic", fixes |-> 0, img |-> <<>>]


\* the DectrisTools live view is not running
ProgOff ==
    /\ progressBarExposure = [minimum |-> 0, maximum |-> 0, value |-> 0]
    /\ dectrisConnected = FALSE
    /\ frame_time = 0
    /\ progress_thread = "notstarted"
    /\ progInterrupt = FALSE
    /\ uiEvents = <<>>
    /\ uiProg = "off"
    /\ exposing = FALSE
    /\ afterReset = FALSE

\* the live view window before the application is started
LiveOff ==
    /\ uiPc = "off"
    /\ timerActive = FALSE
    /\ checked = "stop"
    /\ takeEnabled = TRUE
    /\ grabConnected = FALSE
    /\ acqConnected = FALSE
    /\ offlineQuery = "none"
    /\ thState = "notstarted"
    /\ grabPc = "none"
    /\ interruptReq = FALSE
    /\ shotPc = "none"
    /\ liveCmd = "none"
    /\ lastOp = "none"
    /\ nTicks = 0
    /\ nCycles = 0
    /\ grabResults = 0
    /\ shotResults = 0
    /\ camFrame = <<>>
    /\ liveFrame = NoFrame
    /\ shotFrame = NoFrame

InitExp == ExpInit /\ LiveOff /\ ProgOff

InitParse == ParseInit /\ LiveOff /\ ProgOff

\* the detector's state is owned by the remote device and changes on its own
CameraChange ==
    /\ pc \notin {"done", "aborted"}
    /\ \E s \in DevStates \ {camState} : camState' = s
    /\ UNCHANGED <<pc, delays, raised, nAcq, faults>>
    /\ UNCHANGED <<ctlVars, hwVars, logVars, dirVars, inputVars, moves, liveVars, progVars>>

\* the delay stage reaches its commanded position
StageArrives ==
    /\ stageMoving
    /\ stageMoving' = FALSE
    /\ UNCHANGED <<pc, delays, camState, raised, nAcq, faults>>
    /\ UNCHANGED <<ctlVars, pump, probe, shutterMode, stageCmd, logVars, dirVars, inputVars, moves, liveVars, progVars>>


\* ExceptHandler that re-raises without closing the log
M_ExceptHandler(e) ==
    /\ pc' = "aborted"
    /\ IF logState = "open"
       THEN /\ log' = Append(log, fmt_log("error", e, 0, 0))
            /\ raised' = e
            /\ UNCHANGED <<logState, nClose, flushed>>
       ELSE /\ raised' = "ValueError"
            /\ UNCHANGED logVars

\* except Exception as e: logfile.write(fmt_log(str(e))); logfile.close(); raise e
\* (a write to the closed file raises ValueError in place of e)
ExceptHandler(e) ==
    /\ pc' = "aborted"
    /\ IF logState = "open"
       THEN /\ log' = Append(log, fmt_log("error", e, 0, 0))
            /\ logState' = "closed"
            /\ nClose' = nClose + 1
            /\ flushed' = Len(log')
            /\ raised' = e
       ELSE /\ raised' = "ValueError"
            /\ UNCHANGED logVars

\* RunStart with the shutters put in manual mode (line 128) ahead of the
\* readiness loop
M_RunStart ==
    /\ pc = "connect"
    /\ IF camState \in {"UNKNOWN", "FAULT"}
       THEN \E s \in DevStates : camState' = s
       ELSE UNCHANGED camState
    /\ i' = 0
    /\ pc' = "ready"
    /\ shutterMode' = "manual"
    /\ UNCHANGED <<scanIt, dIdx, step, delays, raised, nAcq, faults>>
    /\ UNCHANGED <<pump, probe, stageCmd, stageMoving>>
    /\ UNCHANGED <<logVars, dirVars, inputVars, moves, liveVars, progVars>>

\* line 108: delays = parse_timedelays(cmd_args.delays)
ParseDelays ==
    /\ pc = "start"
    /\ delays' = parse_timedelays(delaysArg)
    /\ pc' = "connect"
    /\ UNCHANGED <<i, scanIt, dIdx, step, camState, raised, nAcq, faults>>
    /\ UNCHANGED <<hwVars, logVars, dirVars, inputVars, moves, liveVars, progVars>>

\* lines 111-116: connect, re-initialise a faulted detector
RunStart ==
    /\ pc = "connect"
    /\ IF camState \in {"UNKNOWN", "FAULT"}
       THEN \E s \in DevStates : camState' = s
       ELSE UNCHANGED camState
    /\ i' = 0
    /\ pc' = "ready"
    /\ UNCHANGED <<scanIt, dIdx, step, delays, raised, nAcq, faults>>
    /\ UNCHANGED <<hwVars, logVars, dirVars, inputVars, moves, liveVars, progVars>>

\* lines 117-123: one iteration of the readiness loop
ReadyPoll ==
    /\ pc = "ready"
    /\ IF camState = "ON"
       THEN /\ pc' = "setup"
            /\ UNCHANGED <<i, raised>>
       ELSE /\ i' = i + 1
            /\ IF i + 1 > ReadyBudget
               THEN pc' = "aborted" /\ raised' = "DevFailed"
               ELSE pc' = "ready" /\ UNCHANGED raised
    /\ UNCHANGED <<scanIt, dIdx, step, delays, camState, nAcq, faults>>
    /\ UNCHANGED <<hwVars, logVars, dirVars, inputVars, moves, liveVars, progVars>>

\* f216.state() of lines 113 and 118 fails: nothing catches it
InitFault ==
    /\ pc \in {"connect", "ready"}
    /\ pc' = "aborted"
    /\ raised' = "CommunicationFailed"
    /\ UNCHANGED <<delays, camState, nAcq, faults>>
    /\ UNCHANGED <<ctlVars, hwVars, logVars, dirVars, inputVars, moves, liveVars, progVars>>

\* lines 125-132: exposure, both shutters to manual mode, delay stage handle
Setup ==
    /\ pc = "setup"
    /\ shutterMode' = "manual"
    /\ pc' = "openlog"
    /\ UNCHANGED <<delays, camState, raised, nAcq, faults>>
    /\ UNCHANGED <<ctlVars, pump, probe, stageCmd, stageMoving, logVars, dirVars, inputVars, moves, liveVars, progVars>>

\* lines 135-137: open(..., "w+") and the start record
OpenLog ==
    /\ pc = "openlog"
    /\ logState' = "open"
    /\ log' = <<fmt_log("start", "", nScans, Len(delays))>>
    /\ flushed' = flush(0)
    /\ pc' = "mkdirs"
    /\ UNCHANGED <<delays, camState, raised, nAcq, faults, nClose>>
    /\ UNCHANGED <<ctlVars, hwVars, dirVars, inputVars, moves, liveVars, progVars>>

FixedDirs == <<FixedDir(DIR_LASER_BG), FixedDir(DIR_PUMP_OFF), FixedDir(DIR_DARK)>>

\* index of the first mkdir of FixedDirs that finds its directory, 0 if none
FirstExisting ==
    IF \E k \in 1..Len(FixedDirs) : FixedDirs[k] \in fs
    THEN CHOOSE k \in 1..Len(FixedDirs) :
            /\ FixedDirs[k] \in fs
            /\ \A j \in 1..(k - 1) : FixedDirs[j] \notin fs
    ELSE 0

\* lines 139-141: the three fixed directories; mkdir raises on an existing one
MkFixedDirs ==
    /\ pc = "mkdirs"
    /\ LET bad == FirstExisting
           done == SubSeq(FixedDirs, 1, IF bad = 0 THEN Len(FixedDirs) ELSE bad - 1)
       IN /\ made' = made \o done
          /\ fs' = fs \cup {done[k] : k \in 1..Len(done)}
          /\ IF bad = 0
             THEN pc' = "scan_head" /\ UNCHANGED <<logVars, raised>>
             ELSE ExceptHandler("FileExistsError")
    /\ UNCHANGED <<delays, camState, nAcq, faults>>
    /\ UNCHANGED <<ctlVars, hwVars, inputVars, moves, liveVars, progVars>>


\* ScanHead whose loop bound is off by one
M_ScanHead ==
    /\ pc = "scan_head"
    /\ IF scanIt <= nScans
       THEN /\ i' = scanIt
            /\ scanIt' = scanIt + 1
            /\ pc' = "dark_shutters"
       ELSE /\ pc' = "finish"
            /\ UNCHANGED <<i, scanIt>>
    /\ UNCHANGED <<dIdx, step, delays, camState, raised, nAcq, faults>>
    /\ UNCHANGED <<hwVars, logVars, dirVars, inputVars, moves, liveVars, progVars>>

\* line 142: for i in range(cmd_args.n_scans)
ScanHead ==
    /\ pc = "scan_head"
    /\ IF scanIt < nScans
       THEN /\ i' = scanIt
            /\ scanIt' = scanIt + 1
            /\ pc' = "dark_shutters"
       ELSE /\ pc' = "finish"
            /\ UNCHANGED <<i, scanIt>>
    /\ UNCHANGED <<dIdx, step, delays, camState, raised, nAcq, faults>>
    /\ UNCHANGED <<hwVars, logVars, dirVars, inputVars, moves, liveVars, progVars>>

\* lines 143-144
DarkShutters ==
    /\ pc = "dark_shutters"
    /\ pump' = "closed"
    /\ probe' = "closed"
    /\ step' = "dark"
    /\ pc' = "acq"
    /\ UNCHANGED <<i, scanIt, dIdx, delays, camState, raised, nAcq, faults>>
    /\ UNCHANGED <<shutterMode, stageCmd, stageMoving, logVars, dirVars, inputVars, moves, liveVars, progVars>>

\* where run() continues after the retry loop of a step breaks
After(k) ==
    CASE k = "dark" -> "laser_shutters"
      [] k = "laser" -> "laser_done"
      [] k = "off" -> "off_done"
      [] k = "on" -> "on_done"


\* acquire_image that swallows a caught fault and returns None, which the retry
\* loop reads as success
M_acquire_image_return(caught) ==
    [raises |-> None, value |-> None]

\* acquire_image, lines 88 and 95-97: what the call hands to run() when the try
\* block ended normally (caught = None) or a tango fault was caught.  Leaving
\* `except ... as exception` unbinds the local name, so `return exception`
\* raises UnboundLocalError.
acquire_image_return(caught) ==
    IF caught = None
    THEN [raises |-> None, value |-> None]
    ELSE [raises |-> "UnboundLocalError", value |-> None]

\* lines 145-150 (153-158, 162-167, 179-184): the retry loop around one call
RetryLoop(r) ==
    IF r.raises # None
    THEN /\ ExceptHandler(r.raises)
         /\ UNCHANGED <<step, nAcq>>
    ELSE IF r.value # None
    THEN /\ log' = Append(log, fmt_log("error", r.value, 0, 0))
         /\ pc' = "acq"
         /\ UNCHANGED <<step, nAcq, logState, nClose, flushed, raised>>
    ELSE /\ pc' = After(step)
         /\ nAcq' = [nAcq EXCEPT ![step] = @ + 1]
         /\ UNCHANGED <<step, logVars, raised>>

\* line 90: detector.AcquireAndDisplayImage()
AcquireTrigger ==
    /\ pc = "acq"
    /\ camState' = "RUNNING"
    /\ pc' = "poll"
    /\ UNCHANGED <<delays, raised, nAcq, faults>>
    /\ UNCHANGED <<ctlVars, hwVars, logVars, dirVars, inputVars, moves, liveVars, progVars>>

\* lines 92-93: one poll of detector.state(); ON ends acquire_image
AcquirePoll ==
    /\ pc = "poll"
    /\ IF camState = "ON"
       THEN RetryLoop(acquire_image_return(None))
       ELSE UNCHANGED <<pc, step, nAcq, logVars, raised>>
    /\ UNCHANGED <<i, scanIt, dIdx, delays, camState, faults>>
    /\ UNCHANGED <<hwVars, dirVars, inputVars, moves, liveVars, progVars>>

\* lines 90/92 raise a tango fault, caught at line 95
AcquireFault ==
    /\ pc \in {"acq", "poll"}
    /\ faults' = faults + 1
    /\ RetryLoop(acquire_image_return("DevFailed"))
    /\ UNCHANGED <<i, scanIt, dIdx, delays, camState>>
    /\ UNCHANGED <<hwVars, dirVars, inputVars, moves, liveVars, progVars>>


\* LaserShutters with the two enable() arguments exchanged
M_LaserShutters ==
    /\ pc = "laser_shutters"
    /\ pump' = "closed"
    /\ probe' = "open"
    /\ step' = "laser"
    /\ pc' = "acq"
    /\ UNCHANGED <<i, scanIt, dIdx, delays, camState, raised, nAcq, faults>>
    /\ UNCHANGED <<shutterMode, stageCmd, stageMoving, logVars, dirVars, inputVars, moves, liveVars, progVars>>

\* lines 151-152
LaserShutters ==
    /\ pc = "laser_shutters"
    /\ pump' = "open"
    /\ probe' = "closed"
    /\ step' = "laser"
    /\ pc' = "acq"
    /\ UNCHANGED <<i, scanIt, dIdx, delays, camState, raised, nAcq, faults>>
    /\ UNCHANGED <<shutterMode, stageCmd, stageMoving, logVars, dirVars, inputVars, moves, liveVars, progVars>>

\* lines 159-161
PumpOffShutters ==
    /\ pc = "laser_done"
    /\ log' = Append(log, fmt_log("laser_bg", "", 0, 0))
    /\ pump' = "closed"
    /\ probe' = "open"
    /\ step' = "off"
    /\ pc' = "acq"
    /\ UNCHANGED <<i, scanIt, dIdx, delays, camState, raised, nAcq, faults>>
    /\ UNCHANGED <<shutterMode, stageCmd, stageMoving, logState, nClose, flushed, dirVars, inputVars, moves, liveVars, progVars>>

\* lines 168-169
PumpOnShutter ==
    /\ pc = "off_done"
    /\ log' = Append(log, fmt_log("pump_off", "", 0, 0))
    /\ pump' = "open"
    /\ step' = "none"
    /\ pc' = "scandir"
    /\ UNCHANGED <<i, scanIt, dIdx, delays, camState, raised, nAcq, faults>>
    /\ UNCHANGED <<probe, shutterMode, stageCmd, stageMoving, logState, nClose, flushed, dirVars, inputVars, moves, liveVars, progVars>>

\* lines 171-174: the scan directory, the shuffle, the delay iterator
ScanDir ==
    /\ pc = "scandir"
    /\ IF ScanDirName(i + 1) \in fs
       THEN /\ ExceptHandler("FileExistsError")
            /\ UNCHANGED <<delays, dIdx, dirVars>>
       ELSE /\ fs' = fs \cup {ScanDirName(i + 1)}
            /\ made' = Append(made, ScanDirName(i + 1))
            /\ delays' \in Shuffles(delays)
            /\ dIdx' = 0
            /\ pc' = "sweep_head"
            /\ UNCHANGED <<logVars, raised>>
    /\ UNCHANGED <<i, scanIt, step, camState, nAcq, faults>>
    /\ UNCHANGED <<hwVars, inputVars, moves, liveVars, progVars>>

\* line 174: for delay in delays
SweepHead ==
    /\ pc = "sweep_head"
    /\ IF dIdx < Len(delays)
       THEN dIdx' = dIdx + 1 /\ pc' = "move"
       ELSE pc' = "scan_head" /\ UNCHANGED dIdx
    /\ UNCHANGED <<i, scanIt, step, delays, camState, raised, nAcq, faults>>
    /\ UNCHANGED <<hwVars, logVars, dirVars, inputVars, moves, liveVars, progVars>>

\* line 177: delay_stage.absolute_time(delay, T0_POS)
StageMove ==
    /\ pc = "move"
    /\ stageCmd' = <<delays[dIdx], T0_POS>>
    /\ stageMoving' = TRUE
    /\ moves' = Append(moves, [scan |-> i + 1, delay |-> delays[dIdx]])
    /\ pc' = "wait_move"
    /\ UNCHANGED <<delays, camState, raised, nAcq, faults>>
    /\ UNCHANGED <<ctlVars, pump, probe, shutterMode, logVars, dirVars,
                   inputVars, liveVars, progVars>>


\* StageWait that returns without waiting for the end of the move
M_StageWait ==
    /\ pc = "wait_move"
    /\ step' = "on"
    /\ pc' = "acq"
    /\ UNCHANGED <<i, scanIt, dIdx, delays, camState, raised, nAcq, faults>>
    /\ UNCHANGED <<hwVars, logVars, dirVars, inputVars, moves, liveVars, progVars>>

\* line 178: delay_stage._wait_end_of_move() returns once the stage rests
StageWait ==
    /\ pc = "wait_move"
    /\ ~stageMoving
    /\ step' = "on"
    /\ pc' = "acq"
    /\ UNCHANGED <<i, scanIt, dIdx, delays, camState, raised, nAcq, faults>>
    /\ UNCHANGED <<hwVars, logVars, dirVars, inputVars, moves, liveVars, progVars>>

\* lines 185-186
PumpOnLogged ==
    /\ pc = "on_done"
    /\ log' = Append(log, fmt_log("pump_on", "", i + 1, delays[dIdx]))
    /\ step' = "none"
    /\ pc' = "sweep_head"
    /\ UNCHANGED <<i, scanIt, dIdx, delays, camState, raised, nAcq, faults>>
    /\ flushed' = flush(flushed)
    /\ UNCHANGED <<hwVars, logState, nClose, dirVars, inputVars, moves, liveVars, progVars>>


\* FinalShutters that closes the pump shutter only
M_FinalShutters ==
    /\ pc = "finish"
    /\ pump' = "closed"
    /\ pc' = "complete"
    /\ UNCHANGED <<delays, camState, raised, nAcq, faults>>
    /\ UNCHANGED <<ctlVars, probe, shutterMode, stageCmd, stageMoving, logVars, dirVars, inputVars, moves, liveVars, progVars>>

\* lines 188-189
FinalShutters ==
    /\ pc = "finish"
    /\ pump' = "closed"
    /\ probe' = "closed"
    /\ pc' = "complete"
    /\ UNCHANGED <<delays, camState, raised, nAcq, faults>>
    /\ UNCHANGED <<ctlVars, shutterMode, stageCmd, stageMoving, logVars, dirVars, inputVars, moves, liveVars, progVars>>

\* line 190
Complete ==
    /\ pc = "complete"
    /\ log' = Append(log, fmt_log("complete", "", 0, 0))
    /\ pc' = "close_log"
    /\ UNCHANGED <<delays, camState, raised, nAcq, faults, logState, nClose, flushed>>
    /\ UNCHANGED <<ctlVars, hwVars, dirVars, inputVars, moves, liveVars, progVars>>

\* line 191
CloseLog ==
    /\ pc = "close_log"
    /\ logState' = "closed"
    /\ nClose' = nClose + 1
    /\ flushed' = Len(log)
    /\ pc' = "print"
    /\ UNCHANGED <<delays, camState, raised, nAcq, faults, log>>
    /\ UNCHANGED <<ctlVars, hwVars, dirVars, inputVars, moves, liveVars, progVars>>

\* line 192
PrintDone ==
    /\ pc = "print"
    /\ pc' = "done"
    /\ UNCHANGED <<delays, camState, raised, nAcq, faults>>
    /\ UNCHANGED <<ctlVars, hwVars, logVars, dirVars, inputVars, moves, liveVars, progVars>>

\* positions of run() inside the try block of lines 138-192
Guarded ==
    {"mkdirs", "scan_head", "dark_shutters", "acq", "poll", "laser_shutters",
     "laser_done", "off_done", "scandir", "sweep_head", "move", "wait_move",
     "on_done", "finish", "complete", "close_log", "print"}

\* positions of run() inside the scan loop of lines 142-186
Sequencing == Guarded \ {"mkdirs", "finish", "complete", "close_log", "print"}

\* a statement of the try block raises an Exception nothing nearer catches
\* (a shutter or stage driver error, print on a console that cannot encode)
RaiseInTry ==
    /\ pc \in Guarded
    /\ ExceptHandler("Exception")
    /\ UNCHANGED <<delays, camState, nAcq, faults>>
    /\ UNCHANGED <<ctlVars, hwVars, dirVars, inputVars, moves, liveVars, progVars>>

NextExp ==
    \/ CameraChange
    \/ StageArrives
    \/ ParseDelays
    \/ RunStart
    \/ ReadyPoll
    \/ InitFault
    \/ Setup
    \/ OpenLog
    \/ MkFixedDirs
    \/ ScanHead
    \/ DarkShutters
    \/ AcquireTrigger
    \/ AcquirePoll
    \/ AcquireFault
    \/ LaserShutters
    \/ PumpOffShutters
    \/ PumpOnShutter
    \/ ScanDir
    \/ SweepHead
    \/ StageMove
    \/ StageWait
    \/ PumpOnLogged
    \/ FinalShutters
    \/ Complete
    \/ CloseLog
    \/ PrintDone
    \/ RaiseInTry

SpecExp == InitExp /\ [][NextExp]_vars

\* parse_timedelays on its own
NextParse == ParseDelays

SpecParse == InitParse /\ [][NextParse]_vars


-----------------------------------------------------------------------------
(***************************************************************************)
(* Properties of the experiment sequencer (SpecExp; C18 under SpecParse)   *)
(***************************************************************************)

HasRecord(kind) == \E k \in 1..Len(log) : log[k].kind = kind

ScanDirsMade == [k \in 1..nScans |-> ScanDirName(k)]

\* C3 (retry-until-success): every device fault raised inside acquire_image is
\* answered by one failure record for it in the log and by re-issuing the same
\* step, so K faults leave K failure records before the step succeeds.
C3_RetryUntilSuccess ==
    [][faults' = faults + 1 =>
          /\ log' = Append(log, fmt_log("error", "DevFailed", 0, 0))
          /\ pc' = "acq"
          /\ step' = step
          /\ raised' = "none"]_vars

\* C4 (fault propagation): the run enters the aborted state only by a step in
\* which no device fault of a single acquisition occurred.
C4_FaultNeverAborts ==
    [][(pc # "aborted" /\ pc' = "aborted") => faults' = faults]_vars

\* C5 (shutter ordering): whenever an acquisition is about to be triggered or is
\* being polled, the last shutter commands are those of its step.
C5_ShutterOrdering ==
    pc \in {"acq", "poll"} =>
        /\ step \in Steps
        /\ shutterMode = "manual"
        /\ step = "dark" => (pump = "closed" /\ probe = "closed")
        /\ step = "laser" => (pump = "open" /\ probe = "closed")
        /\ step = "off" => (pump = "closed" /\ probe = "open")
        /\ step = "on" => (pump = "open" /\ probe = "open")

C5_Witness ==
    /\ pc = "poll"
    /\ step = "on"
    /\ scanIt = 2
    /\ nAcq["laser"] = 2

\* C6 (stage before frame): whenever a pump-on acquisition is about to be
\* triggered or is being polled, the stage was last commanded to the current
\* delay with offset T0_POS and is at rest.
C6_StageBeforeFrame ==
    (pc \in {"acq", "poll"} /\ step = "on") =>
        /\ dIdx \in 1..Len(delays)
        /\ stageCmd = <<delays[dIdx], T0_POS>>
        /\ ~stageMoving

C6_Witness ==
    /\ pc = "poll"
    /\ step = "on"
    /\ dIdx = 2
    /\ delays[1] # delays[2]
    /\ stageCmd = <<delays[2], T0_POS>>

\* C7 (end-to-end counts): a run that has left the scan loop without an
\* exception made nScans successful dark, laser-background and pump-off
\* acquisitions and nScans * D pump-on acquisitions, and created the three fixed
\* directories once followed by scan 1 .. scan nScans in increasing order.
C7_EndToEndCounts ==
    pc \in {"finish", "complete", "close_log", "print", "done"} =>
        /\ nAcq["dark"] = nScans
        /\ nAcq["laser"] = nScans
        /\ nAcq["off"] = nScans
        /\ nAcq["on"] = nScans * Len(delays)
        /\ made = FixedDirs \o ScanDirsMade

C7_Witness ==
    /\ pc = "done"
    /\ nScans = 2
    /\ Len(delays) = 2
    /\ nAcq["on"] = 4
    /\ Len(made) = 5

\* C8 (log completeness on initialization abort): when the readiness check gave
\* up, the log holds a record of the failure and no scan directory was created.
C8_LogOnReadinessAbort ==
    (pc = "aborted" /\ raised = "DevFailed") =>
        /\ HasRecord("error")
        /\ \A k \in 1..Len(made) : made[k][1] # "scan"

C10_Completion ==
    /\ HasRecord("complete") =>
          /\ scanIt = nScans
          /\ nAcq["on"] = nScans * Len(delays)
          /\ pump = "closed" /\ probe = "closed"
          /\ pc \in {"close_log", "print", "done", "aborted"}
          /\ pc # "aborted" => log[Len(log)].kind = "complete"
          /\ Cardinality({k \in 1..Len(log) : log[k].kind = "complete"}) = 1
    /\ pc = "close_log" => (HasRecord("complete") /\ logState = "open")
    /\ pc \in {"print", "done"} => (HasRecord("complete") /\ logState = "closed")
    /\ pc = "complete" => (pump = "closed" /\ probe = "closed" /\ logState = "open")

C10_Witness ==
    /\ pc = "done"
    /\ logState = "closed"
    /\ nScans = 2
    /\ Len(delays) = 1
    /\ log[Len(log)].kind = "complete"
    /\ log[Len(log) - 1].kind = "pump_on"


-----------------------------------------------------------------------------
(***************************************************************************)
(* ui/liveview.py LiveViewUi with the grabbers of lib/uiutils.py           *)
(*                                                                         *)
(* The UI thread runs one handler at a time from its event loop            *)
(* (uiPc = "idle"); timer timeouts are events of that loop.  The live      *)
(* grabber runs __get_image on its own QThread.  Device commands issued by *)
(* the UI handlers are taken to succeed.                                   *)
(***************************************************************************)


\* the readiness loop of lines 116-123 gave up
ReadinessTimeout == pc = "aborted" /\ raised = "DevFailed" /\ i > ReadyBudget

\* nothing was commanded to a shutter or to the delay stage, and no directory
\* was created
NoHardwareMotion ==
    /\ shutterMode = "unset"
    /\ pump = "unset"
    /\ probe = "unset"
    /\ stageCmd = <<>>
    /\ ~stageMoving
    /\ made = <<>>

\* C16 (readiness timeout precedes all hardware motion): while run() waits for
\* the detector to be ON, and when it has given up after the polling budget
\* with a fatal DevFailed, no shutter command, no stage command and no
\* directory creation has happened.
C16_TimeoutBeforeMotion ==
    (pc = "ready" \/ ReadinessTimeout) => NoHardwareMotion

\* the detector was not ON at any of the ReadyBudget + 1 polls: run() failed
C16_Witness ==
    /\ ReadinessTimeout
    /\ i = ReadyBudget + 1
    /\ camState # "ON"

Range(s) == {s[k] : k \in DOMAIN s}

\* occurrences of v in the list s
CountIn(s, v) == Cardinality({k \in DOMAIN s : s[k] = v})

\* the lists s and t hold the same values, each as many times
SameBag(s, t) ==
    /\ Len(s) = Len(t)
    /\ \A v \in Range(s) : CountIn(s, v) = CountIn(t, v)

\* an element of the delay-list text is neither a number nor a range
Unparseable(time_str) ==
    \E k \in DOMAIN time_str : time_str[k].t \in {"empty", "junk"}

\* C17 (configuration errors never reach the sequencer): with an unparseable
\* delay list run() goes no further than its argument parsing: no shutter or
\* stage command, no directory, no log, no scan and no acquisition.
C17_ConfigErrorRejected ==
    Unparseable(delaysArg) =>
        /\ NoHardwareMotion
        /\ logState = "unopened"
        /\ scanIt = 0
        /\ \A k \in Steps : nAcq[k] = 0

\* every element is a number or a range of ascending step
WellFormed(time_str) ==
    \A k \in DOMAIN time_str :
        \/ time_str[k].t = "num"
        \/ time_str[k].t = "range" /\ time_str[k].inc > 0

\* the value with three decimals nearest to v
Nearest(v) == CHOOSE r \in (v - 2)..(v + 2) : r % 5 = 0

\* the values an element stands for: the number itself; start, start + step,
\* ... as long as strictly below stop
Stands(elem) ==
    IF elem.t = "num"
    THEN {elem.start}
    ELSE {elem.start + k * elem.inc :
            k \in {j \in 0..(elem.stop - elem.start) :
                     elem.start + j * elem.inc < elem.stop}}

\* how many of the values the elements stand for round to v
RECURSIVE Expected(_, _)
Expected(elements, v) ==
    IF elements = <<>>
    THEN 0
    ELSE Cardinality({x \in Stands(Head(elements)) : Nearest(x) = v})
         + Expected(Tail(elements), v)

ExpectedValues(time_str) ==
    UNION {{Nearest(x) : x \in Stands(time_str[k])} : k \in DOMAIN time_str}

DelaySet == parse_timedelays(delaysArg)

\* the delays the stage was sent to during scan n, in order
ScanMoves(n) ==
    LET sel == SelectSeq(moves, LAMBDA r : r.scan = n)
    IN  [k \in DOMAIN sel |-> sel[k].delay]

\* the delays of the pump-on acquisitions of scan n that succeeded (each is
\* logged at lines 185-186), in order
ScanShots(n) ==
    LET sel == SelectSeq(log, LAMBDA r : r.kind = "pump_on" /\ r.a = n)
    IN  [k \in DOMAIN sel |-> sel[k].b]

\* scan n has run to the end of its sweep
ScanComplete(n) ==
    \/ n < scanIt
    \/ n = scanIt /\ pc \in {"scan_head", "finish", "complete", "close_log",
                               "print", "done"}

IsPrefix(s, t) == Len(s) <= Len(t) /\ s = SubSeq(t, 1, Len(s))

\* C19 (per-scan delay order is a permutation of the DelaySet): the list swept
\* holds at all times the entries of the DelaySet, each as many times; within
\* the running scan the stage moves follow that list entry by entry and each
\* successful pump-on acquisition follows its move; a scan that is complete
\* made exactly one move and one successful acquisition per entry.
C19_PermutationPerScan ==
    /\ pc # "start" => SameBag(delays, DelaySet)
    /\ scanIt >= 1 =>
          /\ IsPrefix(ScanMoves(scanIt), delays)
          /\ IsPrefix(ScanShots(scanIt), ScanMoves(scanIt))
          /\ Len(ScanMoves(scanIt)) <= Len(ScanShots(scanIt)) + 1
    /\ \A n \in 1..nScans :
          ScanComplete(n) =>
              /\ SameBag(ScanMoves(n), DelaySet)
              /\ SameBag(ScanShots(n), DelaySet)

\* two complete scans swept the same two delays in different orders
C19_Witness ==
    /\ pc = "done"
    /\ nScans = 2
    /\ Len(DelaySet) = 2
    /\ ScanMoves(1) # ScanMoves(2)
    /\ ScanShots(2) = ScanMoves(2)


\* the places of run() that follow an acquisition step: lines 151, 159, 168, 185
AfterAcquisition == {After(k) : k \in Steps}

\* C21 (no progress without success): the sequencer leaves an acquisition step
\* for what follows it (the next shutter change, the success record, the scan
\* directory, the next stage move, the completion record) only by a step in
\* which the poll of that step found the detector ON and no device fault
\* occurred, and what follows is entered in no other way.
C21_NoProgressWithoutSuccess ==
    [][/\ (pc \in {"acq", "poll"} /\ pc' \notin {"acq", "poll", "aborted"}) =>
            /\ pc = "poll"
            /\ camState = "ON"
            /\ faults' = faults
            /\ pc' = After(step)
       /\ (pc' \in AfterAcquisition /\ pc' # pc) =>
            /\ pc = "poll"
            /\ camState = "ON"
            /\ faults' = faults]_vars

\* a pump-off acquisition has succeeded at its first attempt of the second
\* scan and the run has moved on to its success record
C21_Witness ==
    /\ pc = "off_done"
    /\ scanIt = 2
    /\ nAcq["off"] = 2
    /\ faults = 0


\* the detector was found ON by the readiness loop and the run went on to the
\* shutters (line 128)
InitializationPassed == shutterMode = "manual"

\* C22 (sequencer liveness), its finite part: a run whose initialization found
\* the detector ON and whose acquisitions failed finitely often is on its way to
\* completion; it has not been ended by an acquisition fault.
C22_SequencerLiveness ==
    (InitializationPassed /\ faults > 0) =>
        ~(pc = "aborted" /\ raised = "UnboundLocalError")


\* polls of f216.state() made by the readiness loop so far (line 118): i counts
\* the polls that did not return ON, and the loop is left for line 125 by one
\* more poll, which returned ON
ReadinessPolls == IF pc = "setup" THEN i + 1 ELSE i

\* C23 (readiness budget): the readiness loop polls the detector state at most
\* 4 * 10 times: it is about to poll only when fewer polls than that were made,
\* it goes on after at most that many polls, and when it gives up exactly that
\* many polls have not returned ON.
C23_ReadinessBudget ==
    /\ pc = "ready" => ReadinessPolls < ReadyBudget
    /\ pc = "setup" => ReadinessPolls <= ReadyBudget
    /\ ReadinessTimeout => ReadinessPolls = ReadyBudget


\* the records "... image acquired ..." of lines 159, 168 and 185
SuccessKinds == {"dark", "laser_bg", "pump_off", "pump_on"}

SuccessRecords == {k \in 1..Len(log) : log[k].kind \in SuccessKinds}

\* acquisition steps that have succeeded so far
Successes == nAcq["dark"] + nAcq["laser"] + nAcq["off"] + nAcq["on"]

\* C24 (every step is logged): once what follows a successful acquisition step
\* has been reached, the log holds one success record per successful step, and a
\* completed run of N scans over D delays holds N * (3 + D) of them, all between
\* the start record and the completion record.
C24_EveryStepLogged ==
    /\ pc \in {"scan_head", "finish"} => Cardinality(SuccessRecords) = Successes
    /\ pc = "done" =>
          /\ Cardinality(SuccessRecords) = nScans * (3 + Len(delays))
          /\ log[1].kind = "start"
          /\ log[Len(log)].kind = "complete"


\* C25 (log durability before motion): while a commanded move of the delay
\* stage is awaited, every record appended to the log so far has left the
\* buffer of the log for the file.
C25_LogDurableBeforeMotion ==
    pc = "wait_move" => flushed = Len(log)


\* logfile.write was called on the closed file (line 194 after line 191): the
\* write raises ValueError, which leaves run() in place of the exception caught
WriteAfterClose == pc = "aborted" /\ raised = "ValueError"

\* C29 (no write after close): on every path through run() no write is issued
\* to the log once it is closed, and the log is closed at most once.
C29_NoWriteAfterClose ==
    /\ ~WriteAfterClose
    /\ nClose <= 1

\* what a retry leaves alone: shutters, delay stage, directories, scan index and
\* place in the sweep
RetryFrame == <<hwVars, dirVars, moves, i, scanIt, dIdx, step, delays>>

\* C30 (retries leave everything but the detector untouched): a failed
\* acquisition attempt is followed by the next attempt of the same step with no
\* shutter command, stage move or directory creation in between and the scan
\* index and current delay unchanged; the log is left open with one record, the
\* failure, appended.
C30_RetryFrameEffect ==
    [][faults' = faults + 1 =>
          /\ RetryFrame' = RetryFrame
          /\ Len(log') = Len(log) + 1
          /\ log'[Len(log')].kind = "error"
          /\ \A k \in 1..Len(log) : log'[k] = log[k]
          /\ logState' = logState
          /\ pc' = "acq"]_vars

\* run() is not executing
ExpOff ==
    /\ pc = "off"
    /\ i = 0
    /\ scanIt = 0
    /\ nScans = 0
    /\ delays = <<>>
    /\ dIdx = 0
    /\ step = "none"
    /\ pump = "unset"
    /\ probe = "unset"
    /\ shutterMode = "unset"
    /\ stageCmd = <<>>
    /\ stageMoving = FALSE
    /\ log = <<>>
    /\ logState = "unopened"
    /\ fs = {}
    /\ made = <<>>
    /\ raised = "none"
    /\ nAcq = [k \in Steps |-> 0]
    /\ faults = 0
    /\ nClose = 0
    /\ flushed = 0
    /\ delaysArg = <<>>
    /\ moves = <<>>

\* LiveViewUi.__init__: both grabbers constructed, the timer created but not
\* started, the window shown with Stop checked
LiveSetup ==
    /\ uiPc = "idle"
    /\ timerActive = FALSE
    /\ checked = "stop"
    /\ takeEnabled = TRUE
    /\ grabConnected \in BOOLEAN
    /\ acqConnected \in BOOLEAN
    /\ offlineQuery = "none"
    /\ thState = "notstarted"
    /\ grabPc = "none"
    /\ interruptReq = FALSE
    /\ shotPc = "none"
    /\ liveCmd = "none"
    /\ lastOp = "none"
    /\ nTicks = 0
    /\ nCycles = 0
    /\ grabResults = 0
    /\ shotResults = 0
    /\ liveFrame = NoFrame
    /\ shotFrame = NoFrame
    /\ camState \in DevStates

\* the live view on a detector that holds one image, of 2 rows and 3 columns
LiveInit == LiveSetup /\ camFrame = Frame(2, 3)

InitLive == LiveInit /\ ExpOff /\ ProgOff

\* the live view on a detector that holds any one of the images of Frames
InitFrames == LiveSetup /\ camFrame \in Frames /\ ExpOff /\ ProgOff

\* the remote detector changes state on its own
LiveCameraChange ==
    /\ uiPc # "closed"
    /\ \E s \in DevStates \ {camState} : camState' = s
    /\ UNCHANGED <<liveVars, expVars, progVars>>

\* ThreadStart without the running check of QThread.start(): a tick during a
\* cycle starts the next one
M_ThreadStart ==
    /\ thState' = "running"
    /\ grabPc' = "get"
    /\ interruptReq' = FALSE
    /\ nCycles' = nCycles + 1
    /\ grabResults' = 0

\* QThread.start(): nothing if the thread is running, else run it afresh; the
\* started signal then invokes __get_image on the grabber thread
ThreadStart ==
    IF thState = "running"
    THEN UNCHANGED <<thState, grabPc, interruptReq, nCycles, grabResults>>
    ELSE /\ thState' = "running"
         /\ grabPc' = "get"
         /\ interruptReq' = FALSE
         /\ nCycles' = nCycles + 1
         /\ grabResults' = 0

\* image_timer.timeout -> image_grabber_thread.start
TimerTick ==
    /\ uiPc = "idle"
    /\ timerActive
    /\ nTicks < MaxTicks
    /\ nTicks' = nTicks + 1
    /\ ThreadStart
    /\ lastOp' = "tick"
    /\ UNCHANGED <<uiPc, timerActive, checked, takeEnabled, grabConnected,
                   acqConnected, offlineQuery, shotPc, liveCmd, shotResults, camFrame,
                   liveFrame, shotFrame, camState, expVars, progVars>>

\* __get_image up to image_ready.emit: the corrected LiveImage of a connected
\* detector (an interruption request only calls quit() first), else the
\* synthetic image after sleep(1)
GrabEmit ==
    /\ grabPc = "get"
    /\ grabPc' = "quit"
    /\ liveFrame' = IF grabConnected THEN DeviceFrame(camFrame) ELSE SyntheticFrame
    /\ grabResults' = grabResults + 1
    /\ UNCHANGED <<uiPc, timerActive, checked, takeEnabled, grabConnected,
                   acqConnected, offlineQuery, thState, interruptReq, shotPc, liveCmd, lastOp,
                   nTicks, nCycles, shotResults, camFrame, shotFrame,
                   camState, expVars, progVars>>

\* __get_image, lines 55-56: reading LiveImage raises; the exception is
\* logged and nothing is emitted
GrabFault ==
    /\ grabPc = "get"
    /\ grabConnected
    /\ grabPc' = "quit"
    /\ UNCHANGED <<uiPc, timerActive, checked, takeEnabled, grabConnected,
                   acqConnected, offlineQuery, thState, interruptReq, shotPc, liveCmd, lastOp,
                   nTicks, nCycles, grabResults, shotResults, camFrame,
                   liveFrame, shotFrame, camState, expVars, progVars>>

\* GrabFinish for a __get_image that returns on an interruption request
\* without reaching image_grabber_thread.quit(): the thread's event loop runs on
M_GrabFinish ==
    /\ grabPc = "quit"
    /\ ~interruptReq
    /\ grabPc' = "none"
    /\ thState' = "finished"
    /\ UNCHANGED <<uiPc, timerActive, checked, takeEnabled, grabConnected,
                   acqConnected, offlineQuery, interruptReq, shotPc, liveCmd, lastOp,
                   nTicks, nCycles, grabResults, shotResults, camFrame,
                   liveFrame, shotFrame, camState, expVars, progVars>>

\* image_grabber_thread.quit() and the end of the thread
GrabFinish ==
    /\ grabPc = "quit"
    /\ grabPc' = "none"
    /\ thState' = "finished"
    /\ UNCHANGED <<uiPc, timerActive, checked, takeEnabled, grabConnected,
                   acqConnected, offlineQuery, interruptReq, shotPc, liveCmd, lastOp,
                   nTicks, nCycles, grabResults, shotResults, camFrame,
                   liveFrame, shotFrame, camState, expVars, progVars>>

\* update_running, triggered by either action of the Start/Stop group
UpdateRunning(choice) ==
    /\ uiPc = "idle"
    /\ checked' = choice
    /\ IF choice = "stop"
       THEN /\ liveCmd' = IF grabConnected THEN "StopLive" ELSE liveCmd
            /\ takeEnabled' = TRUE
            /\ timerActive' = FALSE
            /\ lastOp' = "stop"
       ELSE /\ liveCmd' = IF grabConnected THEN "StartLive" ELSE liveCmd
            /\ takeEnabled' = FALSE
            /\ timerActive' = TRUE
            /\ lastOp' = "start"
    /\ UNCHANGED <<uiPc, grabConnected, acqConnected, offlineQuery, thState, grabPc,
                   interruptReq, shotPc, nTicks, nCycles, grabResults,
                   shotResults, camFrame, liveFrame, shotFrame, camState,
                   expVars, progVars>>

\* LiveViewUi.acquire_image: the exposure setter (it writes exposureTime when
\* the acquirer is connected and the detector ON; otherwise it logs a warning
\* whose text calls f216.state(), also when the acquirer is flagged
\* disconnected, and that call returns or raises), then acquire_image() called
\* on the UI thread, up to its first sleep
TakeImage ==
    /\ uiPc = "idle"
    /\ takeEnabled
    /\ shotResults' = 0
    /\ IF acqConnected
       THEN /\ IF camState = "ON"
               THEN /\ camState' = "RUNNING"
                    /\ uiPc' = "shot"
                    /\ shotPc' = "poll"
                    /\ lastOp' = "exposure"
               ELSE /\ lastOp' = "shot"
                    /\ UNCHANGED <<camState, uiPc, shotPc>>
            /\ UNCHANGED offlineQuery
       ELSE \/ /\ offlineQuery' = "returned"
               /\ uiPc' = "shot"
               /\ shotPc' = "sleep"
               /\ UNCHANGED <<camState, lastOp>>
            \/ /\ offlineQuery' = "raised"
               /\ lastOp' = "shot"
               /\ UNCHANGED <<camState, uiPc, shotPc>>
    /\ UNCHANGED <<timerActive, checked, takeEnabled, grabConnected,
                   acqConnected, thState, grabPc, interruptReq, liveCmd,
                   nTicks, nCycles, grabResults, camFrame, liveFrame,
                   shotFrame, expVars, progVars>>

\* one iteration of the polling loop of acquire_image(): the interruption
\* check (it only calls quit() on a thread that was never started), the sleep,
\* the state read; ON leaves the loop, reads currentImage and emits it corrected
ShotPoll ==
    /\ uiPc = "shot"
    /\ shotPc = "poll"
    /\ IF camState = "ON"
       THEN /\ uiPc' = "idle"
            /\ shotPc' = "none"
            /\ lastOp' = "shot"
            /\ shotFrame' = DeviceFrame(camFrame)
            /\ shotResults' = shotResults + 1
       ELSE UNCHANGED <<uiPc, shotPc, lastOp, shotFrame, shotResults>>
    /\ UNCHANGED <<timerActive, checked, takeEnabled, grabConnected,
                   acqConnected, offlineQuery, thState, grabPc, interruptReq, liveCmd,
                   nTicks, nCycles, grabResults, camFrame, liveFrame,
                   camState, expVars, progVars>>

\* a device call of acquire_image() raises: logged, the cycle ends
ShotFault ==
    /\ uiPc = "shot"
    /\ shotPc = "poll"
    /\ uiPc' = "idle"
    /\ shotPc' = "none"
    /\ lastOp' = "shot"
    /\ UNCHANGED <<timerActive, checked, takeEnabled, grabConnected,
                   acqConnected, offlineQuery, thState, grabPc, interruptReq, liveCmd,
                   nTicks, nCycles, grabResults, shotResults, camFrame,
                   liveFrame, shotFrame, camState, expVars, progVars>>

\* the simulated cycle of acquire_image(): sleep(1), then the synthetic frame
ShotSimulated ==
    /\ uiPc = "shot"
    /\ shotPc = "sleep"
    /\ uiPc' = "idle"
    /\ shotPc' = "none"
    /\ lastOp' = "shot"
    /\ shotFrame' = SyntheticFrame
    /\ shotResults' = shotResults + 1
    /\ UNCHANGED <<timerActive, checked, takeEnabled, grabConnected,
                   acqConnected, offlineQuery, thState, grabPc, interruptReq, liveCmd,
                   nTicks, nCycles, grabResults, camFrame, liveFrame,
                   camState, expVars, progVars>>

\* QThread.requestInterruption(): nothing unless the thread is running
RequestInterruption == interruptReq' = (interruptReq \/ thState = "running")

\* closeEvent up to image_grabber_thread.wait()
CloseBegin ==
    /\ uiPc = "idle"
    /\ timerActive' = FALSE
    /\ RequestInterruption
    /\ uiPc' = "close_wait"
    /\ UNCHANGED <<checked, takeEnabled, grabConnected, acqConnected, offlineQuery, thState,
                   grabPc, shotPc, liveCmd, lastOp, nTicks, nCycles,
                   grabResults, shotResults, camFrame, liveFrame, shotFrame,
                   camState, expVars, progVars>>


\* CloseEnd that does not wait for the grabber thread (line 88 left out)
M_CloseEnd ==
    /\ uiPc = "close_wait"
    /\ liveCmd' = IF grabConnected /\ checked = "start" THEN "StopLive" ELSE liveCmd
    /\ uiPc' = "closed"
    /\ lastOp' = "close"
    /\ UNCHANGED <<timerActive, checked, takeEnabled, grabConnected,
                   acqConnected, offlineQuery, thState, grabPc, interruptReq, shotPc,
                   nTicks, nCycles, grabResults, shotResults, camFrame,
                   liveFrame, shotFrame, camState, expVars, progVars>>

\* closeEvent from the return of wait() to its end
CloseEnd ==
    /\ uiPc = "close_wait"
    /\ thState # "running"
    /\ liveCmd' = IF grabConnected /\ checked = "start" THEN "StopLive" ELSE liveCmd
    /\ uiPc' = "closed"
    /\ lastOp' = "close"
    /\ UNCHANGED <<timerActive, checked, takeEnabled, grabConnected,
                   acqConnected, offlineQuery, thState, grabPc, interruptReq, shotPc,
                   nTicks, nCycles, grabResults, shotResults, camFrame,
                   liveFrame, shotFrame, camState, expVars, progVars>>

\* interrupt_acquisition wrapper, lines 147-153: the stop phase up to wait()
WrapperStop ==
    /\ uiPc = "idle"
    /\ timerActive' = FALSE
    /\ IF grabConnected /\ thState # "finished"
       THEN /\ RequestInterruption
            /\ uiPc' = "wrap_wait"
            /\ UNCHANGED lastOp
       ELSE /\ uiPc' = "wrap_body"
            /\ lastOp' = "wrap_stop"
            /\ UNCHANGED interruptReq
    /\ UNCHANGED <<checked, takeEnabled, grabConnected, acqConnected, offlineQuery, thState,
                   grabPc, shotPc, liveCmd, nTicks, nCycles, grabResults,
                   shotResults, camFrame, liveFrame, shotFrame, camState,
                   expVars, progVars>>

\* interrupt_acquisition wrapper, line 153: wait() returns
WrapperWait ==
    /\ uiPc = "wrap_wait"
    /\ thState # "running"
    /\ uiPc' = "wrap_body"
    /\ lastOp' = "wrap_stop"
    /\ UNCHANGED <<timerActive, checked, takeEnabled, grabConnected,
                   acqConnected, offlineQuery, thState, grabPc, interruptReq, shotPc, liveCmd,
                   nTicks, nCycles, grabResults, shotResults, camFrame,
                   liveFrame, shotFrame, camState, expVars, progVars>>

\* interrupt_acquisition wrapper, lines 154-157: f(self), then the restart
WrapperBody ==
    /\ uiPc = "wrap_body"
    /\ timerActive' = IF checked # "stop" THEN TRUE ELSE timerActive
    /\ uiPc' = "idle"
    /\ lastOp' = "wrap_done"
    /\ UNCHANGED <<checked, takeEnabled, grabConnected, acqConnected, offlineQuery, thState,
                   grabPc, interruptReq, shotPc, liveCmd, nTicks, nCycles,
                   grabResults, shotResults, camFrame, liveFrame, shotFrame,
                   camState, expVars, progVars>>

NextLive ==
    \/ LiveCameraChange
    \/ TimerTick
    \/ GrabEmit
    \/ GrabFault
    \/ GrabFinish
    \/ \E choice \in {"start", "stop"} : UpdateRunning(choice)
    \/ TakeImage
    \/ ShotPoll
    \/ ShotFault
    \/ ShotSimulated
    \/ CloseBegin
    \/ CloseEnd
    \/ WrapperStop
    \/ WrapperWait
    \/ WrapperBody

SpecLive == InitLive /\ [][NextLive]_vars

\* The grabber thread is scheduled and its device read returns or raises
\* (__get_image has no loop), and a wait() whose thread has ended returns.
\* Nothing is assumed of the detector, of the timer or of the user.
LiveFairness ==
    /\ WF_vars(GrabEmit \/ GrabFault)
    /\ WF_vars(GrabFinish)
    /\ WF_vars(CloseEnd)
    /\ WF_vars(WrapperWait)

SpecLiveFair == InitLive /\ [][NextLive]_vars /\ LiveFairness

\* the operations that start, run and end the cycles delivering frames, with
\* the window left open
NextFrames ==
    \/ LiveCameraChange
    \/ TimerTick
    \/ GrabEmit
    \/ GrabFault
    \/ GrabFinish
    \/ \E choice \in {"start", "stop"} : UpdateRunning(choice)
    \/ TakeImage
    \/ ShotPoll
    \/ ShotFault
    \/ ShotSimulated

SpecFrames == InitFrames /\ [][NextFrames]_vars

-----------------------------------------------------------------------------
(***************************************************************************)
(* Properties of the live view (SpecLive; C13 under SpecLiveFair, C20      *)
(* under SpecFrames)                                                       *)
(***************************************************************************)

\* a live grab cycle is running on the grabber thread
LiveInFlight == thState = "running"

\* a single-shot cycle is running (on the UI thread that requested it)
ShotInFlight == uiPc = "shot"

\* C1 (single-flight): a live grab cycle and a single-shot cycle are never in
\* flight against the detector at the same time.
C1_SingleFlight == ~(LiveInFlight /\ ShotInFlight)

\* C2 (cancellation completeness): when a stop operation has returned (the Stop
\* branch of update_running, the stop phase of the interrupt_acquisition wrapper,
\* closeEvent) and no other UI operation ran since, the timer is stopped and no
\* cycle is running on the grabber thread.
C2_CancellationComplete ==
    lastOp \in {"stop", "wrap_stop", "close"} =>
        (~timerActive /\ ~LiveInFlight)


\* C11 (tick dropping): a timer tick that fires while a live grab cycle is in
\* flight starts nothing, neither then nor later: a cycle starts only in the
\* step of a tick of the running timer that finds no cycle in flight, so the
\* cycles started never exceed the ticks, and with the timer stopped and the
\* cycle ended no cycle starts.
C11_TickDropping ==
    /\ [](nCycles <= nTicks)
    /\ [][/\ (LiveInFlight /\ nTicks' # nTicks) =>
                UNCHANGED <<nCycles, thState, grabPc, interruptReq>>
          /\ (nCycles' # nCycles) =>
                /\ nCycles' = nCycles + 1
                /\ nTicks' = nTicks + 1
                /\ timerActive
                /\ ~LiveInFlight]_vars

\* the second tick fired during the cycle the first one started, and was dropped
C11_Witness ==
    /\ lastOp = "tick"
    /\ nTicks = 2
    /\ nCycles = 1
    /\ LiveInFlight

\* C12 (exactly one result per cycle): every invocation of __get_image and of
\* acquire_image() that has reached its end has delivered exactly one result
\* to its listener, and none ever delivers two.
C12_ExactlyOneResult ==
    /\ grabResults <= 1
    /\ shotResults <= 1
    /\ grabPc = "quit" => grabResults = 1
    /\ lastOp = "shot" => shotResults = 1

\* a caller has requested the cancellation of the live cycle and waits for the
\* grabber thread (closeEvent, the interrupt_acquisition wrapper)
CallerWaits == uiPc \in {"close_wait", "wrap_wait"}

C14_UiNeverBlocks ==
    /\ grabPc # "none" => thState = "running"
    /\ shotPc # "none" => uiPc # "shot"

\* detector configuration was written (the exposure setter of Take Image) or
\* the body of a function wrapped by interrupt_acquisition is running
Reconfiguring == lastOp = "exposure" \/ uiPc = "wrap_body"

\* C15 (reconfiguration never raced with live acquisition): whenever the
\* detector configuration is written from the UI, or the body of a function
\* wrapped by interrupt_acquisition runs, no cycle is in flight on the grabber
\* thread, with a connected and with a simulated detector.
C15_NoReconfigurationRace == Reconfiguring => ~LiveInFlight

\* the frame f was read from the detector and corrected exactly once
CorrectedOnce(f) ==
    /\ f.src = "device"
    /\ f.fixes = 1
    /\ f.img = fix_image_orientation(camFrame)
    /\ fix_image_orientation(f.img) = camFrame

\* C20 (orientation correction is an involution): correcting twice the image
\* the detector holds, of any shape, gives that image back, the correction
\* swapping the numbers of rows and columns; and every frame delivered from a
\* connected detector, by the live grab or by the single shot, is that image
\* corrected exactly once.
C20_OrientationInvolution ==
    /\ fix_image_orientation(fix_image_orientation(camFrame)) = camFrame
    /\ Rows(fix_image_orientation(camFrame)) = Cols(camFrame)
    /\ Cols(fix_image_orientation(camFrame)) = Rows(camFrame)
    /\ (grabConnected /\ liveFrame # NoFrame) => CorrectedOnce(liveFrame)
    /\ (acqConnected /\ shotFrame # NoFrame) => CorrectedOnce(shotFrame)

\* a connected detector holding an image that is not square has delivered it
\* through the live grab and through the single shot
C20_Witness ==
    /\ Rows(camFrame) # Cols(camFrame)
    /\ grabConnected
    /\ acqConnected
    /\ liveFrame.src = "device"
    /\ shotFrame.src = "device"
    /\ liveFrame.img # camFrame



\* closeEvent has stopped the timer (line 86) and has not returned, or has
\* returned
Closing == uiPc \in {"close_wait", "closed"}

\* the step in which closeEvent passes lines 89-90 and returns
CloseReturns == uiPc = "close_wait" /\ uiPc' = "closed"

\* C31 (shutdown ordering of the live view): once closeEvent has stopped the
\* timer it stays stopped and no grab cycle starts; a grabber thread running
\* then has its interruption requested; nothing is sent to the detector while
\* closeEvent waits; and closeEvent goes on only when the thread does not run
\* and no cycle is in flight, sending StopLive then exactly when the grabber is
\* connected and the Start action is checked.
C31_ShutdownOrdering ==
    /\ [](Closing => ~timerActive)
    /\ []((uiPc = "close_wait" /\ thState = "running") => interruptReq)
    /\ [][Closing => /\ nCycles' = nCycles
                     /\ (thState' = "running" => thState = "running")
                     /\ (liveCmd' # liveCmd => CloseReturns)]_vars
    /\ [][CloseReturns =>
            /\ thState # "running"
            /\ grabPc = "none"
            /\ IF grabConnected /\ checked = "start"
               THEN liveCmd = "StartLive" /\ liveCmd' = "StopLive"
               ELSE liveCmd' = liveCmd]_vars

\* closeEvent has returned and has sent StopLive to the started live view of a
\* connected grabber, whose last cycle was asked to stop while it ran and has
\* ended
C31_Witness ==
    /\ uiPc = "closed"
    /\ interruptReq
    /\ thState = "finished"
    /\ grabConnected
    /\ checked = "start"
    /\ liveCmd = "StopLive"
    /\ nCycles >= 1

\* C28 (disconnected detector means no hardware I/O): with the acquirer flagged
\* disconnected a take-image request calls nothing on the device proxy, and
\* when it has returned it has delivered one frame, the placeholder; with the
\* live grabber flagged disconnected every frame of a live cycle is the
\* placeholder.
C28_DisconnectedNoHardwareIO ==
    /\ ~acqConnected =>
          /\ offlineQuery = "none"
          /\ lastOp = "shot" => (shotResults = 1 /\ shotFrame = SyntheticFrame)
    /\ (~grabConnected /\ liveFrame # NoFrame) => liveFrame = SyntheticFrame


-----------------------------------------------------------------------------
(***************************************************************************)
(* DectrisTools ui/liveview.py: the exposure progress bar of LiveViewUi.   *)
(* The image grabber and the progress worker (lib/Utils.py) are taken from *)
(* their use in liveview.py and from the specification: the grabber emits  *)
(* exposure_triggered, then image_ready, once per cycle; the worker emits  *)
(* advance_progress_bar at a fixed rate on progress_thread until its       *)
(* interruption is requested.  Signals emitted on another thread reach the *)
(* slots of the UI through the event queue of the UI thread, in order.     *)
(***************************************************************************)

MaxFrameTime == 6
MaxQueue == 3

\* line 154: time = 100
DefaultMaximum == 100

\* values of Q.frame_time, in units of 5 ms
FrameTimes == 0..MaxFrameTime

\* int(self.dectris_image_grabber.Q.frame_time*100), line 152: frame_time is
\* in seconds, so t units of 5 ms give t/2, truncated
int_frame_time_100(t) == t \div 2

\* QProgressBar.setRange: the value is reset to minimum - 1 when it falls
\* outside the new range
setRange(bar, lo, hi) ==
    IF lo = bar.minimum /\ hi = bar.maximum
    THEN bar
    ELSE LET top == IF hi > lo THEN hi ELSE lo
         IN [minimum |-> lo,
             maximum |-> top,
             value |-> IF bar.value < lo - 1 \/ bar.value > top
                       THEN lo - 1
                       ELSE bar.value]

\* QProgressBar.setMaximum
setMaximum(bar, top) ==
    setRange(bar, IF top < bar.minimum THEN top ELSE bar.minimum, top)

\* QProgressBar.setValue: a value outside the range is ignored, unless the
\* range is 0..0
setValue(bar, v) ==
    IF \/ bar.value = v
       \/ /\ (v > bar.maximum \/ v < bar.minimum)
          /\ (bar.maximum # 0 \/ bar.minimum # 0)
    THEN bar
    ELSE [bar EXCEPT !.value = v]

\* advance_progress_bar that starts again from zero at the maximum
M_advance_progress_bar(bar) ==
    IF bar.value + 1 < bar.maximum
    THEN setValue(bar, bar.value + 1)
    ELSE setValue(bar, 0)

\* lines 143-148
advance_progress_bar(bar) ==
    IF bar.value + 1 < bar.maximum
    THEN setValue(bar, bar.value + 1)
    ELSE setValue(bar, bar.maximum)

\* lines 150-157: setMaximum() returns None, so the second setMaximum is made
\* only when the detector is disconnected
reset_progress_bar(bar, connected, t) ==
    IF connected
    THEN setValue(setMaximum(bar, int_frame_time_100(t)), 0)
    ELSE setMaximum(setValue(bar, 0), DefaultMaximum)

\* the progress bar as a QProgressBar is constructed
NewProgressBar == [minimum |-> 0, maximum |-> 100, value |-> -1]

\* LiveViewUi.__init__, lines 22-56: the signals are connected and
\* reset_progress_bar() is called before the timers start
ProgSetup ==
    /\ dectrisConnected \in BOOLEAN
    /\ frame_time \in FrameTimes
    /\ progressBarExposure =
           reset_progress_bar(NewProgressBar, dectrisConnected, frame_time)
    /\ progress_thread = "notstarted"
    /\ progInterrupt = FALSE
    /\ uiEvents = <<>>
    /\ uiProg = "loop"
    /\ exposing = FALSE
    /\ afterReset = TRUE

InitProgress == ProgSetup /\ ExpOff /\ LiveOff /\ camState = "ON"

barVars == <<progressBarExposure, dectrisConnected, frame_time>>
workerVars == <<progress_thread, progInterrupt>>
otherVars == <<expVars, camState, liveVars>>

\* the image grabber starts an exposure: exposure_triggered is emitted, line 27
ExposureTriggered ==
    /\ uiProg # "off"
    /\ ~exposing
    /\ Len(uiEvents) < MaxQueue
    /\ exposing' = TRUE
    /\ uiEvents' = Append(uiEvents, "trigger")
    /\ afterReset' = FALSE
    /\ UNCHANGED <<barVars, workerVars, uiProg, otherVars>>

\* the image grabber delivers the frame: image_ready is emitted, line 31
ImageReady ==
    /\ exposing
    /\ Len(uiEvents) < MaxQueue
    /\ exposing' = FALSE
    /\ uiEvents' = Append(uiEvents, "frame")
    /\ UNCHANGED <<barVars, workerVars, uiProg, afterReset, otherVars>>

\* line 27: exposure_triggered reaches progress_thread.start; QThread.start()
\* does nothing while the thread runs
ProgressThreadStart ==
    /\ uiProg = "loop"
    /\ uiEvents # <<>>
    /\ Head(uiEvents) = "trigger"
    /\ uiEvents' = Tail(uiEvents)
    /\ progress_thread' = "running"
    /\ progInterrupt' = (progInterrupt /\ progress_thread = "running")
    /\ UNCHANGED <<barVars, uiProg, exposing, afterReset, otherVars>>

\* the worker's loop on progress_thread: one advance_progress_bar emitted
WorkerTick ==
    /\ progress_thread = "running"
    /\ ~progInterrupt
    /\ Len(uiEvents) < MaxQueue
    /\ uiEvents' = Append(uiEvents, "tick")
    /\ UNCHANGED <<barVars, workerVars, uiProg, exposing, afterReset, otherVars>>

\* the worker's loop finds the interruption requested and the thread ends
WorkerStop ==
    /\ progress_thread = "running"
    /\ progInterrupt
    /\ progress_thread' = "finished"
    /\ progInterrupt' = FALSE
    /\ UNCHANGED <<barVars, uiEvents, uiProg, exposing, afterReset, otherVars>>

\* line 36: advance_progress_bar of the worker reaches the slot of the UI
AdvanceProgressBar ==
    /\ uiProg = "loop"
    /\ uiEvents # <<>>
    /\ Head(uiEvents) = "tick"
    /\ uiEvents' = Tail(uiEvents)
    /\ progressBarExposure' = advance_progress_bar(progressBarExposure)
    /\ UNCHANGED <<dectrisConnected, frame_time, workerVars, uiProg, exposing,
                   afterReset, otherVars>>

\* update_image, lines 103-108: the frame is shown
UpdateImageBegin ==
    /\ uiProg = "loop"
    /\ uiEvents # <<>>
    /\ Head(uiEvents) = "frame"
    /\ uiEvents' = Tail(uiEvents)
    /\ uiProg' = "update"
    /\ UNCHANGED <<barVars, workerVars, exposing, afterReset, otherVars>>

\* update_image, line 109: requestInterruption(), which does nothing unless the
\* thread runs; then wait() is entered
UpdateImageStop ==
    /\ uiProg = "update"
    /\ progInterrupt' = (progInterrupt \/ progress_thread = "running")
    /\ uiProg' = "wait"
    /\ UNCHANGED <<barVars, progress_thread, uiEvents, exposing, afterReset,
                   otherVars>>

\* update_image, lines 110-111: wait() returns when the thread does not run,
\* then reset_progress_bar()
UpdateImageReset ==
    /\ uiProg = "wait"
    /\ progress_thread # "running"
    /\ progressBarExposure' =
           reset_progress_bar(progressBarExposure, dectrisConnected, frame_time)
    /\ afterReset' = TRUE
    /\ uiProg' = "loop"
    /\ UNCHANGED <<dectrisConnected, frame_time, workerVars, uiEvents, exposing,
                   otherVars>>

\* update_exposure, lines 136-139: a new frame time is written to the detector
UpdateExposure ==
    /\ uiProg = "loop"
    /\ dectrisConnected
    /\ \E t \in FrameTimes \ {frame_time} : frame_time' = t
    /\ UNCHANGED <<progressBarExposure, dectrisConnected, workerVars, uiEvents,
                   uiProg, exposing, afterReset, otherVars>>

NextProgress ==
    \/ ExposureTriggered
    \/ ImageReady
    \/ ProgressThreadStart
    \/ WorkerTick
    \/ WorkerStop
    \/ AdvanceProgressBar
    \/ UpdateImageBegin
    \/ UpdateImageStop
    \/ UpdateImageReset
    \/ UpdateExposure

SpecProgress == InitProgress /\ [][NextProgress]_vars

\* C26 (stop-before-reset of the progress estimator): from the reset made on
\* frame arrival until the grabber next emits its trigger notification the
\* counter stays at zero: no tick emitted before the reset is applied after it.
C26_StopBeforeReset ==
    afterReset => progressBarExposure.value = 0

\* the slot advance_progress_bar runs for a queued tick
TickApplied ==
    /\ uiProg = "loop"
    /\ uiEvents # <<>>
    /\ Head(uiEvents) = "tick"
    /\ uiEvents' = Tail(uiEvents)

\* C27 (progress counter saturation): through every sequence of ticks and
\* resets the counter is between 0 and the maximum; a tick adds exactly one
\* while the counter plus one is below the maximum and otherwise leaves the
\* counter at the maximum.
C27_ProgressSaturation ==
    /\ [](/\ 0 <= progressBarExposure.value
          /\ progressBarExposure.value <= progressBarExposure.maximum)
    /\ [][TickApplied =>
            progressBarExposure'.value =
                IF progressBarExposure.value + 1 < progressBarExposure.maximum
                THEN progressBarExposure.value + 1
                ELSE progressBarExposure.maximum]_vars

\* the counter has been driven to a maximum of three by ticks and a further
\* tick is about to be applied
C27_Witness ==
    /\ progressBarExposure.maximum = 3
    /\ progressBarExposure.value = 3
    /\ uiProg = "loop"
    /\ uiEvents # <<>>
    /\ Head(uiEvents) = "tick"

=============================================================================
